---- MODULE Spec2Model ----
(***************************************************************************)
(* Model of regex/scrape_tags.py: the ledger scraper (scrape_file), the    *)
(* registry resolver (get_registry), the classifier (enrich_with_family)   *)
(* and the projections (format_markdown, json_grouped).                    *)
(*                                                                         *)
(* A document text is a sequence of tokens.  A token stands for one        *)
(* substring of the text that one of the regular expressions of the        *)
(* program recognises, or for the newline character:                       *)
(*   "BH"  \begin{SectionHeaderLedger}{Origins}                             *)
(*   "BF"  \begin{SectionFooterLedger}                                      *)
(*   "EH"  \end{SectionHeaderLedger}      "EF"  \end{SectionFooterLedger}   *)
(*   "T1"  \Tag[onto]{seed} 2024-03-01 v1.2.0 — Initial seed.               *)
(*   "T2"  \Tag{ZZZTOP} 2024-06-01 v2.0.0 — Later.                         *)
(*   "S1"  \Section{a}{b}{Genesis}        "S2"  \Section{a}{b}{Exodus}      *)
(*   "NL"  the line terminator                                             *)
(* re.search(line) finds the leftmost match, i.e. the first token of the   *)
(* pattern's kind.                                                         *)
(***************************************************************************)
EXTENDS Integers, Sequences, FiniteSets, TLC

\* scrape_file: the document, the control point, the loop index and locals;
\* evt, hist and inAt are history variables for the properties.
VARIABLES text, pc, pos, section_title, in_ledger, ledger_title, entries,
          evt, hist, inAt

\* main after the scrape loop: the dict objects (heap, addressed by index),
\* the lists of references to them, the registries and the outputs.
VARIABLES args, heap, all_entries, BUILTIN_REGISTRY, md_map, registry,
          enriched, unknowns, out, ppc

scrapeVars == <<text, pc, pos, section_title, in_ledger, ledger_title,
                entries, evt, hist, inAt>>

pipeVars == <<args, heap, all_entries, BUILTIN_REGISTRY, md_map, registry,
              enriched, unknowns, out, ppc>>

\* load_registry_from_md: the registry document, the control point, the
\* loop index and the locals; rlog is a history variable (one entry per
\* processed line).
VARIABLES rdoc, rpc, rpos, current_family, tag_to_family, rlog

\* main's loop over the files and its callers' view: the discovered files,
\* the loop index, the registry document; perFile (one entry per scraped
\* file) and calls (one entry per earlier get_registry call) are history
\* variables.
VARIABLES files, fidx, regdoc, perFile, origin, calls

regVars == <<rdoc, rpc, rpos, current_family, tag_to_family, rlog>>

mainVars == <<files, fidx, regdoc, perFile, origin, calls>>

vars == <<scrapeVars, pipeVars, regVars, mainVars>>

\* Longest document text, in tokens.
MaxText == 5

\* Python's None, for the string-valued locals of scrape_file.
None == "None"

UNKNOWN_SECTION == "(unknown section)"

Tokens == {"BH", "BF", "EH", "EF", "T1", "T2", "S1", "S2", "NL"}

\* str(path) of the document being scraped.
FilePath == "sections/a.tex"

\* find_files(root): the *.tex paths under root, sorted.
Paths ==
  <<"sections/a.tex", "sections/b.tex", "sections/c.tex", "sections/d.tex",
    "sections/e.tex">>

\* Families.
STRUCTURAL == "Structural"
PROCESS == "Process"
SYMBOLIC == "Symbolic"
META == "Meta"
EPIPHANY == "Epiphany"

\* The module-level dict literal.
BUILTIN_TABLE ==
  [t \in {"GLYPH", "NODE", "ARC", "LATTICE", "CORE", "GATE", "BOND", "SEED",
          "SPINE", "KEY"} |-> STRUCTURAL]
  @@ [t \in {"DRIFT", "ANCHOR", "FUSE", "REFRACT", "SPIRAL", "TEMPER", "CAST",
             "WARD", "TRACE", "FLOW", "BIND"} |-> PROCESS]
  @@ [t \in {"LIGHT", "SHDW", "MOTHER", "FATHER", "AIR", "FIRE", "WATER",
             "EARTH", "GNOME", "OPAL", "COMPASS", "LAMP", "FORGE"} |-> SYMBOLIC]
  @@ [t \in {"META", "ENGRAM", "LEDGER", "TEST", "PROOF", "CIPHER", "MAP",
             "GLOSS", "ARCHIVE", "ITER"} |-> META]
  @@ [t \in {"ARC_CLIMAX", "GATE_OPEN", "GATE_CLOSE", "CORE_REVEAL",
             "SPIRAL_TURN", "FORGE_STRIKE"} |-> EPIPHANY]

\* argparse defaults of the options main reads after the scrape loop.
ArgDefaults ==
  [layer |-> None, tag |-> None, tags_reg |-> None, json |-> "",
   group_by |-> "tag"]

\* main has not started (the scrape_file specification).
PipeIdle ==
  /\ args = ArgDefaults
  /\ heap = <<>>
  /\ all_entries = <<>>
  /\ BUILTIN_REGISTRY = BUILTIN_TABLE
  /\ md_map = <<>>
  /\ registry = <<>>
  /\ enriched = <<>>
  /\ unknowns = <<>>
  /\ out = [kind |-> "none"]
  /\ ppc = "idle"

\* No scrape_file call is in progress (the specification of main).
ScrapeIdle ==
  /\ text = <<>>
  /\ pc = "idle"
  /\ pos = 1
  /\ section_title = None
  /\ in_ledger = FALSE
  /\ ledger_title = None
  /\ entries = <<>>
  /\ evt = "none"
  /\ hist = <<>>
  /\ inAt = <<>>

\* An unreadable file: read_text raises.
Unreadable == [readable |-> FALSE, text |-> <<>>]

\* No load_registry_from_md call is in progress.
RegIdle ==
  /\ rdoc = Unreadable
  /\ rpc = "idle"
  /\ rpos = 1
  /\ current_family = None
  /\ tag_to_family = <<>>
  /\ rlog = <<>>

\* main's file loop is not running.
MainIdle ==
  /\ files = <<>>
  /\ fidx = 1
  /\ regdoc = Unreadable
  /\ perFile = <<>>
  /\ origin = <<>>
  /\ calls = <<>>

----------------------------------------------------------------------------
(* Regular expressions, by what they match on a token sequence.            *)

\* Index of the leftmost token of s that is in K, 0 when there is none.
RECURSIVE FirstFrom(_, _, _)
FirstFrom(s, K, i) ==
  IF i > Len(s) THEN 0
  ELSE IF s[i] \in K THEN i
  ELSE FirstFrom(s, K, i + 1)

FirstIdx(s, K) == FirstFrom(s, K, 1)

\* HDR_RE.search(line): the captured title, None when no match.
HDR_RE(line) ==
  IF FirstIdx(line, {"BH"}) = 0 THEN None ELSE "Origins"

\* FTR_RE.search(line) is not None.
FTR_RE(line) == FirstIdx(line, {"BF"}) # 0

\* END_RE.search(line) is not None: either end form.
END_RE(line) == FirstIdx(line, {"EH", "EF"}) # 0

\* SECTION_RE.search(text): the title of the first declaration, else None.
SECTION_RE(t) ==
  LET i == FirstIdx(t, {"S1", "S2"})
  IN  IF i = 0 THEN None
      ELSE IF t[i] = "S1" THEN "Genesis" ELSE "Exodus"

\* TAG_RE.search(line) is not None.
TAG_RE(line) == FirstIdx(line, {"T1", "T2"}) # 0

\* The groups TAG_RE captures on its leftmost match in line; the optional
\* layer group is None when the bracket is absent.
TAG_groups(line) ==
  IF line[FirstIdx(line, {"T1", "T2"})] = "T1"
  THEN [layer |-> "onto", tag |-> "seed", date |-> "2024-03-01",
        ver |-> "1.2.0", narr |-> "Initial seed. "]
  ELSE [layer |-> None, tag |-> "ZZZTOP", date |-> "2024-06-01",
        ver |-> "2.0.0", narr |-> "Later."]

\* str.upper() on the strings of the model.
Upper(s) ==
  CASE s = "onto" -> "ONTO"
    [] s = "seed" -> "SEED"
    [] s = "zzztop" -> "ZZZTOP"
    [] OTHER -> s

\* str.strip() on the strings of the model.
Strip(s) ==
  CASE s = "Initial seed. " -> "Initial seed."
    [] OTHER -> s

\* text.splitlines(): the pieces between line terminators; a terminator at
\* the end of the text opens no further line.
RECURSIVE SplitFrom(_, _, _, _)
SplitFrom(t, i, cur, acc) ==
  IF i > Len(t) THEN (IF cur = <<>> THEN acc ELSE Append(acc, cur))
  ELSE IF t[i] = "NL" THEN SplitFrom(t, i + 1, <<>>, Append(acc, cur))
  ELSE SplitFrom(t, i + 1, Append(cur, t[i]), acc)

splitlines(t) == SplitFrom(t, 1, <<>>, <<>>)

----------------------------------------------------------------------------
(* scrape_file                                                             *)

\* Mutant of SectionOf: the section title takes precedence over the ledger.
SectionOf_SectionFirst(lt, st) ==
  IF st # None THEN st
  ELSE IF lt # None THEN lt
  ELSE UNKNOWN_SECTION

\* x or y or "(unknown section)" on the string-or-None locals.
SectionOf(lt, st) ==
  IF lt # None THEN lt
  ELSE IF st # None THEN st
  ELSE UNKNOWN_SECTION

\* str(path) of the file scrape_file was called on.
CurPath == IF fidx \in 1..Len(files) THEN Paths[fidx] ELSE FilePath

\* The dict appended for a matched line.
MakeEntry(line, lt, st) ==
  LET g == TAG_groups(line)
  IN  [file |-> CurPath,
       section |-> SectionOf(lt, st),
       layer |-> Upper(IF g.layer = None THEN "" ELSE g.layer),
       tag |-> Upper(g.tag),
       date |-> g.date,
       ver |-> g.ver,
       note |-> Strip(g.narr)]

Lines == splitlines(text)

CurLine == Lines[pos]

AtLine == pc = "scan" /\ pos <= Len(Lines)

\* The state after the locals are initialised, for any document text.
ScrapeInit ==
  /\ text \in UNION {[1..n -> Tokens] : n \in 0..MaxText}
  /\ pc = "read"
  /\ pos = 1
  /\ section_title = None
  /\ in_ledger = FALSE
  /\ ledger_title = None
  /\ entries = <<>>
  /\ evt = "none"
  /\ hist = <<>>
  /\ inAt = <<>>
  /\ PipeIdle
  /\ RegIdle
  /\ MainIdle

\* Mutant of Prescan: only the first line is searched for the declaration.
Prescan_FirstLine ==
  /\ pc = "read"
  /\ pc' = "scan"
  /\ section_title' = (IF Lines = <<>> THEN None ELSE SECTION_RE(Lines[1]))
  /\ UNCHANGED <<text, pos, in_ledger, ledger_title, entries, evt, hist, inAt>>
  /\ UNCHANGED <<pipeVars, regVars, mainVars>>

\* read_text succeeds; the whole-text search for the section declaration.
Prescan ==
  /\ pc = "read"
  /\ pc' = "scan"
  /\ section_title' = SECTION_RE(text)
  /\ UNCHANGED <<text, pos, in_ledger, ledger_title, entries, evt, hist, inAt>>
  /\ UNCHANGED <<pipeVars, regVars, mainVars>>

\* Mutant of ScanHeader: a header line opens a ledger inside a ledger too.
ScanHeader_Nested ==
  /\ AtLine
  /\ HDR_RE(CurLine) # None
  /\ in_ledger' = TRUE
  /\ ledger_title' = HDR_RE(CurLine)
  /\ pos' = pos + 1
  /\ evt' = "header"
  /\ inAt' = Append(inAt, in_ledger)
  /\ UNCHANGED <<text, pc, section_title, entries, hist>>
  /\ UNCHANGED <<pipeVars, regVars, mainVars>>

\* not in_ledger, HDR_RE matches: open with the captured title, continue.
ScanHeader ==
  /\ AtLine
  /\ ~in_ledger
  /\ HDR_RE(CurLine) # None
  /\ in_ledger' = TRUE
  /\ ledger_title' = HDR_RE(CurLine)
  /\ pos' = pos + 1
  /\ evt' = "header"
  /\ inAt' = Append(inAt, in_ledger)
  /\ UNCHANGED <<text, pc, section_title, entries, hist>>
  /\ UNCHANGED <<pipeVars, regVars, mainVars>>

\* not in_ledger, no header, FTR_RE matches: open with the section title.
ScanFooter ==
  /\ AtLine
  /\ ~in_ledger
  /\ HDR_RE(CurLine) = None
  /\ FTR_RE(CurLine)
  /\ in_ledger' = TRUE
  /\ ledger_title' = (IF section_title # None THEN section_title
                      ELSE UNKNOWN_SECTION)
  /\ pos' = pos + 1
  /\ evt' = "footer"
  /\ inAt' = Append(inAt, in_ledger)
  /\ UNCHANGED <<text, pc, section_title, entries, hist>>
  /\ UNCHANGED <<pipeVars, regVars, mainVars>>

\* Mutant of ScanClose: the ledger title survives the close.
ScanClose_KeepTitle ==
  /\ AtLine
  /\ in_ledger
  /\ END_RE(CurLine)
  /\ in_ledger' = FALSE
  /\ pos' = pos + 1
  /\ evt' = "close"
  /\ inAt' = Append(inAt, in_ledger)
  /\ UNCHANGED <<text, pc, section_title, ledger_title, entries, hist>>
  /\ UNCHANGED <<pipeVars, regVars, mainVars>>

\* in_ledger, END_RE matches: close, clear the title, continue.
ScanClose ==
  /\ AtLine
  /\ in_ledger
  /\ END_RE(CurLine)
  /\ in_ledger' = FALSE
  /\ ledger_title' = None
  /\ pos' = pos + 1
  /\ evt' = "close"
  /\ inAt' = Append(inAt, in_ledger)
  /\ UNCHANGED <<text, pc, section_title, entries, hist>>
  /\ UNCHANGED <<pipeVars, regVars, mainVars>>

\* The line fell through the tracker: no branch above took `continue`.
FallsThrough ==
  IF in_ledger THEN ~END_RE(CurLine)
  ELSE HDR_RE(CurLine) = None /\ ~FTR_RE(CurLine)

\* TAG_RE matches: append the record.
ScanTag ==
  /\ AtLine
  /\ FallsThrough
  /\ TAG_RE(CurLine)
  /\ entries' = Append(entries, MakeEntry(CurLine, ledger_title, section_title))
  /\ hist' = Append(hist, [line |-> pos, evt |-> evt, inl |-> in_ledger])
  /\ pos' = pos + 1
  /\ inAt' = Append(inAt, in_ledger)
  /\ UNCHANGED <<text, pc, section_title, in_ledger, ledger_title, evt>>
  /\ UNCHANGED <<pipeVars, regVars, mainVars>>

\* Mutant of ScanPlain: a matched line outside a ledger may be passed over.
ScanPlain_GateByLedger ==
  /\ AtLine
  /\ FallsThrough
  /\ (~TAG_RE(CurLine) \/ ~in_ledger)
  /\ pos' = pos + 1
  /\ inAt' = Append(inAt, in_ledger)
  /\ UNCHANGED <<text, pc, section_title, in_ledger, ledger_title, entries,
                 evt, hist>>
  /\ UNCHANGED <<pipeVars, regVars, mainVars>>

\* TAG_RE does not match: nothing is recorded for the line.
ScanPlain ==
  /\ AtLine
  /\ FallsThrough
  /\ ~TAG_RE(CurLine)
  /\ pos' = pos + 1
  /\ inAt' = Append(inAt, in_ledger)
  /\ UNCHANGED <<text, pc, section_title, in_ledger, ledger_title, entries,
                 evt, hist>>
  /\ UNCHANGED <<pipeVars, regVars, mainVars>>

\* The loop is exhausted: return entries.
ScrapeReturn ==
  /\ pc = "scan"
  /\ pos > Len(Lines)
  /\ pc' = "done"
  /\ UNCHANGED <<text, pos, section_title, in_ledger, ledger_title, entries,
                 evt, hist, inAt>>
  /\ UNCHANGED <<pipeVars, regVars, mainVars>>

ScrapeNext ==
  \/ Prescan
  \/ ScanHeader
  \/ ScanFooter
  \/ ScanClose
  \/ ScanTag
  \/ ScanPlain
  \/ ScrapeReturn

SpecScrape == ScrapeInit /\ [][ScrapeNext]_vars

----------------------------------------------------------------------------
(* Properties of scrape_file.  hist[k] is the line number, the last       *)
(* open/close event and the tracker state at which entries[k] was         *)
(* appended; inAt[n] is the tracker state in which line n was reached.    *)

\* Lines on which a record was appended.
RecordedLines == {hist[k].line : k \in 1..Len(hist)}

\* Lines already processed.
Processed == 1..Len(inAt)

\* Line n took one of the tracker's `continue` branches.
Consumed(n) ==
  IF inAt[n] THEN END_RE(Lines[n])
  ELSE HDR_RE(Lines[n]) # None \/ FTR_RE(Lines[n])

\* One record per recorded line, in increasing line order.
OnePerLine ==
  /\ Len(hist) = Len(entries)
  /\ \A j, k \in 1..Len(hist) : j < k => hist[j].line < hist[k].line

\* C1 as stated: every line that matches the annotation grammar yields one
\* record, in either tracker state.
C1_EveryMatchedLine ==
  pc = "done" =>
    /\ OnePerLine
    /\ RecordedLines = {n \in 1..Len(Lines) : TAG_RE(Lines[n])}

\* C1 amended: every line that matches the annotation grammar and is not
\* consumed as a ledger transition (header or footer-open reached outside a
\* ledger, close reached inside one) yields exactly one record, in either
\* tracker state; a consumed line yields none.
C1_EveryFallThroughMatch ==
  /\ OnePerLine
  /\ RecordedLines = {n \in Processed : TAG_RE(Lines[n]) /\ ~Consumed(n)}

\* A matched line was recorded inside a ledger, and a matched line was
\* consumed by a transition.
C1_Witness ==
  /\ pc = "done"
  /\ \E k \in 1..Len(hist) : hist[k].inl
  /\ \E n \in Processed : TAG_RE(Lines[n]) /\ Consumed(n)

\* The section a record gets outside any ledger.
DocSection ==
  IF SECTION_RE(text) # None THEN SECTION_RE(text) ELSE UNKNOWN_SECTION

\* C2: after a close, and until the next header or footer-open, the tracker
\* is outside with no ledger title, and a record is attributed from ledger
\* context only if the last open/close event before its line was an open.
C2_ClosureInvariant ==
  /\ evt \in {"none", "close"} => (~in_ledger /\ ledger_title = None)
  /\ \A k \in 1..Len(entries) :
       hist[k].evt \in {"none", "close"} =>
         /\ ~hist[k].inl
         /\ entries[k].section = DocSection

\* A record was appended after a header-opened ledger was closed.
C2_Witness ==
  /\ \E k \in 1..Len(entries) :
       /\ hist[k].evt = "close"
       /\ \E n \in 1..(hist[k].line - 1) :
            ~inAt[n] /\ HDR_RE(Lines[n]) # None

\* C3: a record's section is the ledger title when the line is reached
\* inside a ledger (the header's title, or the document's section title or
\* the sentinel for a footer-opened ledger), else the document's section
\* title, else the sentinel; it is never empty or None.
C3_SectionAttribution ==
  \A k \in 1..Len(entries) :
    /\ entries[k].section =
         (IF hist[k].inl /\ hist[k].evt = "header"
          THEN HDR_RE(<<"BH">>)
          ELSE DocSection)
    /\ hist[k].inl <=> hist[k].evt \in {"header", "footer"}
    /\ entries[k].section \notin {"", None}

\* A record from a header-opened ledger in a document that declares a
\* section.
C3_Witness ==
  /\ \E k \in 1..Len(entries) : hist[k].inl /\ hist[k].evt = "header"
  /\ SECTION_RE(text) # None

----------------------------------------------------------------------------
(* main, from the end of the scrape loop.  Dict objects live in heap and  *)
(* are addressed by their index; a list is a sequence of such addresses,  *)
(* so that copying a dict and mutating it in place are different things.  *)

\* Longest aggregated record list.
MaxEntries == 3

\* Records scrape_file can produce (section is never empty, tag and layer
\* are upper-case, note is stripped).
RecordPool ==
  { [file |-> FilePath, section |-> "Origins", layer |-> "ONTO",
     tag |-> "SEED", date |-> "2024-03-01", ver |-> "1.2.0",
     note |-> "Initial seed."],
    [file |-> FilePath, section |-> "Genesis", layer |-> "",
     tag |-> "ZZZTOP", date |-> "2024-06-01", ver |-> "2.0.0",
     note |-> "Later."],
    [file |-> FilePath, section |-> "Origins", layer |-> "EPI",
     tag |-> "FLOW", date |-> "2024-06-01", ver |-> "10.0.0",
     note |-> "Flow."],
    [file |-> FilePath, section |-> "Genesis", layer |-> "",
     tag |-> "ALPHA", date |-> "2024-03-01", ver |-> "1.2.0",
     note |-> "Alpha."],
    [file |-> FilePath, section |-> "Genesis", layer |-> "ONTO",
     tag |-> "ZZZTOP", date |-> "2024-06-01", ver |-> "2.0.0",
     note |-> "Again."],
    [file |-> FilePath, section |-> "Origins", layer |-> "EPI",
     tag |-> "SEED", date |-> "2024-01-01", ver |-> "2.0.0",
     note |-> "Seed two."] }

\* Values of --layer and --tag.
LayerArgs == {None, "onto"}
TagArgs == {None, "zzztop"}

\* Mappings load_registry_from_md can return: tags to families.
ExtMaps ==
  UNION {[D -> {PROCESS, EPIPHANY}] : D \in SUBSET {"SEED", "ZZZTOP"}}

\* The state when the scrape loop has aggregated all_entries.
PipeInit ==
  /\ ScrapeIdle
  /\ RegIdle
  /\ MainIdle
  /\ \E n \in 0..MaxEntries :
       /\ heap \in [1..n -> RecordPool]
       /\ all_entries = [i \in 1..n |-> i]
  /\ args = ArgDefaults
  /\ BUILTIN_REGISTRY = BUILTIN_TABLE
  /\ md_map = <<>>
  /\ registry = <<>>
  /\ enriched = <<>>
  /\ unknowns = <<>>
  /\ out = [kind |-> "none"]
  /\ ppc = "scraped"

\* [e for e in all_entries if e[field] == value.upper()], when value is set.
FilterBy(h, ents, field, value) ==
  IF value = None THEN ents
  ELSE SelectSeq(ents, LAMBDA e : h[e][field] = Upper(value))

\* The --layer and --tag filters.
Filter ==
  /\ ppc = "scraped"
  /\ \E l \in LayerArgs, t \in TagArgs :
       /\ args' = [args EXCEPT !.layer = l, !.tag = t]
       /\ all_entries' =
            FilterBy(heap, FilterBy(heap, all_entries, "layer", l), "tag", t)
  /\ ppc' = "filtered"
  /\ UNCHANGED <<heap, BUILTIN_REGISTRY, md_map, registry, enriched, unknowns,
                 out>>
  /\ UNCHANGED <<scrapeVars, regVars, mainVars>>

\* Mutant of Update: keys already present keep their value.
Update_KeepExisting(reg, other) ==
  [t \in DOMAIN reg \cup DOMAIN other |->
     IF t \in DOMAIN reg THEN reg[t] ELSE other[t]]

\* reg.update(other) on a dict reg: the resulting dict.
Update(reg, other) ==
  [t \in DOMAIN reg \cup DOMAIN other |->
     IF t \in DOMAIN other THEN other[t] ELSE reg[t]]

\* get_registry: reg = dict(BUILTIN_REGISTRY), overlaid with the parsed
\* mapping when --tags-reg is given.
get_registry(builtin, tags_reg, md) ==
  IF tags_reg # None THEN Update(builtin, md) ELSE builtin

\* Mutant of BuiltinAfter: reg is the module-level dict itself, not a copy.
BuiltinAfter_Aliased(builtin, tags_reg, md) ==
  IF tags_reg # None THEN Update(builtin, md) ELSE builtin

\* BUILTIN_REGISTRY after get_registry: reg is a copy, so the update does
\* not reach it.
BuiltinAfter(builtin, tags_reg, md) == builtin

GetRegistry ==
  /\ ppc = "filtered"
  /\ \/ /\ args' = [args EXCEPT !.tags_reg = "TAGS.md"]
        /\ md_map' \in ExtMaps
     \/ /\ args' = [args EXCEPT !.tags_reg = None]
        /\ md_map' = md_map
  /\ registry' = get_registry(BUILTIN_REGISTRY, args'.tags_reg, md_map')
  /\ BUILTIN_REGISTRY' = BuiltinAfter(BUILTIN_REGISTRY, args'.tags_reg, md_map')
  /\ ppc' = "resolved"
  /\ UNCHANGED <<heap, all_entries, enriched, unknowns, out>>
  /\ UNCHANGED <<scrapeVars, regVars, mainVars>>

\* dict.get(k): None when k is not a key.
Get(d, k) == IF k \in DOMAIN d THEN d[k] ELSE None

\* Mutant of FamilyOf: a missing tag keeps the None of the lookup.
FamilyOf_NoDefault(reg, tag) == Get(reg, tag)

\* fam if fam else "Unknown", for fam = registry.get(tag).
FamilyOf(reg, tag) ==
  LET fam == Get(reg, tag)
  IN  IF fam # None /\ fam # "" THEN fam ELSE "Unknown"

\* e2 = dict(e); e2["family"] = fam : the contents of the new dict.
WithFamily(e, fam) ==
  [f \in DOMAIN e \cup {"family"} |-> IF f = "family" THEN fam ELSE e[f]]

\* Mutant of EnrichStep: the family is written into the input dict.
EnrichStep_InPlace(st, e, reg) ==
  [heap |-> [st.heap EXCEPT ![e] = WithFamily(@, FamilyOf(reg, @.tag))],
   out |-> Append(st.out, e)]

\* One iteration of the loop: a new dict is allocated and appended to out.
EnrichStep(st, e, reg) ==
  [heap |-> Append(st.heap, WithFamily(st.heap[e], FamilyOf(reg, st.heap[e].tag))),
   out |-> Append(st.out, Len(st.heap) + 1)]

RECURSIVE EnrichLoop(_, _, _, _)
EnrichLoop(st, ents, i, reg) ==
  IF i > Len(ents) THEN st
  ELSE EnrichLoop(EnrichStep(st, ents[i], reg), ents, i + 1, reg)

\* enrich_with_family(entries, registry): the heap after the call and the
\* returned list.
enrich_with_family(h, ents, reg) ==
  EnrichLoop([heap |-> h, out |-> <<>>], ents, 1, reg)

Enrich ==
  /\ ppc = "resolved"
  /\ LET r == enrich_with_family(heap, all_entries, registry)
     IN  /\ heap' = r.heap
         /\ enriched' = r.out
  /\ ppc' = "enriched"
  /\ UNCHANGED <<args, all_entries, BUILTIN_REGISTRY, md_map, registry,
                 unknowns, out>>
  /\ UNCHANGED <<scrapeVars, regVars, mainVars>>

\* The code points of the strings that are compared.
Chars(s) ==
  CASE s = "2024-01-01" -> <<50, 48, 50, 52, 45, 48, 49, 45, 48, 49>>
    [] s = "2024-03-01" -> <<50, 48, 50, 52, 45, 48, 51, 45, 48, 49>>
    [] s = "2024-06-01" -> <<50, 48, 50, 52, 45, 48, 54, 45, 48, 49>>
    [] s = "1.2.0" -> <<49, 46, 50, 46, 48>>
    [] s = "2.0.0" -> <<50, 46, 48, 46, 48>>
    [] s = "10.0.0" -> <<49, 48, 46, 48, 46, 48>>
    [] s = "SEED" -> <<83, 69, 69, 68>>
    [] s = "FLOW" -> <<70, 76, 79, 87>>
    [] s = "ZZZTOP" -> <<90, 90, 90, 84, 79, 80>>
    [] s = "ALPHA" -> <<65, 76, 80, 72, 65>>

\* a < b on sequences of code points, as Python compares str.
RECURSIVE SeqLT(_, _, _)
SeqLT(a, b, i) ==
  IF i > Len(a) THEN i <= Len(b)
  ELSE IF i > Len(b) THEN FALSE
  ELSE IF a[i] # b[i] THEN a[i] < b[i]
  ELSE SeqLT(a, b, i + 1)

StrLT(a, b) == SeqLT(Chars(a), Chars(b), 1)

\* Mutant of sorted: descending order.
RECURSIVE sorted_Descending(_)
sorted_Descending(S) ==
  IF S = {} THEN <<>>
  ELSE LET m == CHOOSE x \in S : \A y \in S : ~StrLT(x, y)
       IN  <<m>> \o sorted_Descending(S \ {m})

\* sorted(S) for a set of strings: ascending.
RECURSIVE sorted(_)
sorted(S) ==
  IF S = {} THEN <<>>
  ELSE LET m == CHOOSE x \in S : \A y \in S : ~StrLT(y, x)
       IN  <<m>> \o sorted(S \ {m})

\* {e["tag"] for e in enriched if e["family"] == "Unknown"}
UnknownTags(h, enr) ==
  {h[enr[i]].tag : i \in {j \in 1..Len(enr) : h[enr[j]].family = "Unknown"}}

\* The unknown-tags diagnostic.
Unknowns ==
  /\ ppc = "enriched"
  /\ unknowns' = sorted(UnknownTags(heap, enriched))
  /\ ppc' = "warned"
  /\ UNCHANGED <<args, heap, all_entries, BUILTIN_REGISTRY, md_map, registry,
                 enriched, out>>
  /\ UNCHANGED <<scrapeVars, regVars, mainVars>>

----------------------------------------------------------------------------
(* Projections.  A defaultdict(list) is the sequence of its (key, items)  *)
(* pairs in insertion order.                                               *)

\* The sort key (e["date"], e["ver"]).
DateVer(h, e) == <<h[e].date, h[e].ver>>

\* Mutant of TupleLT: the version is not compared.
TupleLT_DateOnly(a, b) == StrLT(a[1], b[1])

\* a < b on (date, ver) tuples of strings.
TupleLT(a, b) ==
  \/ StrLT(a[1], b[1])
  \/ a[1] = b[1] /\ StrLT(a[2], b[2])

\* Insert e into the descending list s behind every element whose key is
\* not smaller (equal keys keep their order: the sort is stable).
InsertDesc(h, s, e) ==
  LET smaller == {j \in 1..Len(s) : TupleLT(DateVer(h, s[j]), DateVer(h, e))}
      at == IF smaller = {} THEN Len(s) + 1
            ELSE CHOOSE j \in smaller : \A k \in smaller : j <= k
  IN  SubSeq(s, 1, at - 1) \o <<e>> \o SubSeq(s, at, Len(s))

\* entries.sort(key=(date, ver), reverse=True): the list after the call.
RECURSIVE SortDescFrom(_, _, _, _)
SortDescFrom(h, ents, i, acc) ==
  IF i > Len(ents) THEN acc
  ELSE SortDescFrom(h, ents, i + 1, InsertDesc(h, acc, ents[i]))

SortDesc(h, ents) == SortDescFrom(h, ents, 1, <<>>)

\* groups[key].append(e)
GroupAppend(groups, key, e) ==
  IF \E j \in 1..Len(groups) : groups[j].key = key
  THEN LET g == CHOOSE j \in 1..Len(groups) : groups[j].key = key
       IN  [groups EXCEPT ![g].items = Append(@, e)]
  ELSE Append(groups, [key |-> key, items |-> <<e>>])

\* for e in entries: groups[key of e].append(e); keys[i] is the key of
\* ents[i].
RECURSIVE GroupFrom(_, _, _, _)
GroupFrom(ents, keys, i, acc) ==
  IF i > Len(ents) THEN acc
  ELSE GroupFrom(ents, keys, i + 1, GroupAppend(acc, keys[i], ents[i]))

GroupBy(ents, keys) == GroupFrom(ents, keys, 1, <<>>)

\* sorted(groups.items(), reverse=True): the keys are distinct, so the
\* comparison of two items is decided by their keys.
RECURSIVE SortGroupsFrom(_, _, _)
SortGroupsFrom(groups, i, acc) ==
  IF i > Len(groups) THEN acc
  ELSE LET g == groups[i]
           smaller == {j \in 1..Len(acc) : TupleLT(acc[j].key, g.key)}
           at == IF smaller = {} THEN Len(acc) + 1
                 ELSE CHOOSE j \in smaller : \A k \in smaller : j <= k
       IN  SortGroupsFrom(groups, i + 1,
             SubSeq(acc, 1, at - 1) \o <<g>> \o SubSeq(acc, at, Len(acc)))

SortGroupsDesc(groups) == SortGroupsFrom(groups, 1, <<>>)

\* Mutant of Header: the heading always names the first item's section.
Header_FirstTitle(h, g) ==
  [k |-> "header", date |-> g.key[1], ver |-> g.key[2],
   title |-> h[g.items[1]].section]

\* The heading of one group: it names the section when all items share it.
Header(h, g) ==
  LET title == h[g.items[1]].section
  IN  [k |-> "header", date |-> g.key[1], ver |-> g.key[2],
       title |-> IF \E i \in 1..Len(g.items) : h[g.items[i]].section # title
                 THEN None ELSE title]

\* The line of one record; ref is a history field naming the record.
Item(h, e) ==
  [k |-> "item",
   layer_tag |-> IF h[e].layer # "" THEN <<h[e].layer, h[e].tag>>
                 ELSE <<h[e].tag>>,
   section |-> h[e].section, note |-> h[e].note, ref |-> e]

\* header, one line per item, divider.
GroupChunks(h, g) ==
  <<Header(h, g)>> \o [i \in 1..Len(g.items) |-> Item(h, g.items[i])]
  \o <<[k |-> "divider"]>>

RECURSIVE ChunksFrom(_, _, _)
ChunksFrom(h, groups, i) ==
  IF i > Len(groups) THEN <<>>
  ELSE GroupChunks(h, groups[i]) \o ChunksFrom(h, groups, i + 1)

\* The caller's list after format_markdown(entries): sorted in place unless
\* it is empty.
SortedEntries(h, ents) ==
  IF ents = <<>> THEN ents ELSE SortDesc(h, ents)

\* format_markdown(entries): the chunks that are joined into the text.
format_markdown(h, ents) ==
  IF ents = <<>> THEN <<[k |-> "info"]>>
  ELSE LET srt == SortDesc(h, ents)
           keys == [i \in 1..Len(srt) |-> DateVer(h, srt[i])]
       IN  ChunksFrom(h, SortGroupsDesc(GroupBy(srt, keys)), 1)

\* The default branch of main: the narrative projection of enriched.
FormatMarkdown ==
  /\ ppc = "warned"
  /\ args' = [args EXCEPT !.json = ""]
  /\ enriched' = SortedEntries(heap, enriched)
  /\ out' = [kind |-> "markdown", chunks |-> format_markdown(heap, enriched)]
  /\ ppc' = "done"
  /\ UNCHANGED <<heap, all_entries, BUILTIN_REGISTRY, md_map, registry,
                 unknowns>>
  /\ UNCHANGED <<scrapeVars, regVars, mainVars>>

\* --json raw: the enriched list is serialised as it is.
JsonRaw ==
  /\ ppc = "warned"
  /\ args' = [args EXCEPT !.json = "raw"]
  /\ out' = [kind |-> "raw",
             records |-> [i \in 1..Len(enriched) |-> heap[enriched[i]]]]
  /\ ppc' = "done"
  /\ UNCHANGED <<heap, all_entries, BUILTIN_REGISTRY, md_map, registry,
                 enriched, unknowns>>
  /\ UNCHANGED <<scrapeVars, regVars, mainVars>>

\* e.get(by, "")
FieldOf(h, e, by) == IF by \in DOMAIN h[e] THEN h[e][by] ELSE ""

\* Mutant of json_grouped: a record joins the group created last.
json_grouped_LastGroup(h, ents, by) ==
  LET gs == GroupBy(ents, [i \in 1..Len(ents) |-> FieldOf(h, ents[i], by)])
  IN  IF Len(gs) < 2 THEN gs
      ELSE [gs EXCEPT ![1].items = <<gs[1].items[1]>>,
                      ![Len(gs)].items = @ \o Tail(gs[1].items)]

\* json_grouped(entries, by)
json_grouped(h, ents, by) ==
  GroupBy(ents, [i \in 1..Len(ents) |-> FieldOf(h, ents[i], by)])

\* --json grouped --group-by by
JsonGrouped ==
  /\ ppc = "warned"
  /\ \E by \in {"tag", "layer", "section"} :
       /\ args' = [args EXCEPT !.json = "grouped", !.group_by = by]
       /\ out' = [kind |-> "grouped", groups |-> json_grouped(heap, enriched, by)]
  /\ ppc' = "done"
  /\ UNCHANGED <<heap, all_entries, BUILTIN_REGISTRY, md_map, registry,
                 enriched, unknowns>>
  /\ UNCHANGED <<scrapeVars, regVars, mainVars>>

PipeNext ==
  \/ Filter
  \/ GetRegistry
  \/ Enrich
  \/ Unknowns
  \/ FormatMarkdown
  \/ JsonRaw
  \/ JsonGrouped

SpecPipe == PipeInit /\ [][PipeNext]_vars

----------------------------------------------------------------------------
(* Properties of the registry, the classifier and the projections.        *)

Range(f) == {f[i] : i \in DOMAIN f}

FamilyNames ==
  {STRUCTURAL, PROCESS, SYMBOLIC, META, EPIPHANY, "Unknown"}

\* C4: the resolved registry is the built-in mapping overlaid with the
\* external one: external entries win, built-in entries not in the external
\* mapping are kept, nothing else is present; without --tags-reg it is the
\* built-in mapping.
C4_RegistryOverlay ==
  ppc \in {"resolved", "enriched", "warned", "done"} =>
    IF args.tags_reg = None THEN registry = BUILTIN_TABLE
    ELSE /\ DOMAIN registry = DOMAIN BUILTIN_TABLE \cup DOMAIN md_map
         /\ \A t \in DOMAIN md_map : registry[t] = md_map[t]
         /\ \A t \in DOMAIN BUILTIN_TABLE \ DOMAIN md_map :
              registry[t] = BUILTIN_TABLE[t]

\* The external mapping overrides a built-in tag and adds a new one.
C4_Witness ==
  /\ ppc = "resolved"
  /\ args.tags_reg # None
  /\ "SEED" \in DOMAIN md_map
  /\ md_map["SEED"] # BUILTIN_TABLE["SEED"]
  /\ "ZZZTOP" \in DOMAIN md_map
  /\ registry["FLOW"] = BUILTIN_TABLE["FLOW"]

\* C5: enrich_with_family returns one record per input record, in the same
\* order, each the input record plus a family that is the registry's value
\* for its tag, or "Unknown" when the tag is not in the registry; the family
\* is never None and always one of the six names.
C5_ClassificationTotal ==
  ppc = "enriched" =>
    /\ Len(enriched) = Len(all_entries)
    /\ \A i \in 1..Len(enriched) :
         LET e == heap[all_entries[i]]
             e2 == heap[enriched[i]]
         IN  /\ DOMAIN e2 = DOMAIN e \cup {"family"}
             /\ \A f \in DOMAIN e \ {"family"} : e2[f] = e[f]
             /\ e2.family = (IF e.tag \in DOMAIN registry
                             THEN registry[e.tag] ELSE "Unknown")
             /\ e2.family # None
             /\ e2.family \in FamilyNames

\* A classified list with a known and an unknown tag.
C5_Witness ==
  /\ ppc = "enriched"
  /\ \E i \in 1..Len(enriched) : heap[enriched[i]].family = "Unknown"
  /\ \E i \in 1..Len(enriched) : heap[enriched[i]].family = STRUCTURAL
  /\ \E i \in 1..Len(enriched) : heap[enriched[i]].family = EPIPHANY

\* C6 as stated: rendering the narrative projection leaves the record list
\* with the same records in the same order.
C6_RenderReadOnly ==
  [][FormatMarkdown => enriched' = enriched]_vars

\* C7: enrich_with_family leaves the entries list, every existing record
\* and the registry as they were; the records it returns are new objects.
C7_InputsUntouched ==
  [][Enrich =>
       /\ all_entries' = all_entries
       /\ registry' = registry
       /\ \A i \in 1..Len(heap) : heap'[i] = heap[i]
       /\ \A i \in 1..Len(all_entries) :
            "family" \notin DOMAIN heap'[all_entries[i]]
       /\ \A i \in 1..Len(enriched') :
            /\ enriched'[i] \notin Range(all_entries)
            /\ enriched'[i] > Len(heap)]_vars

\* Two records were classified under an external registry.
C7_Witness ==
  /\ ppc = "enriched"
  /\ Len(all_entries) >= 2
  /\ Len(enriched) = Len(all_entries)
  /\ args.tags_reg # None

\* The rendered chunks, the positions of headings and of record lines.
Chunks == out.chunks
HeaderIdx == {i \in 1..Len(Chunks) : Chunks[i].k = "header"}
ItemIdx == {i \in 1..Len(Chunks) : Chunks[i].k = "item"}
HeaderKey(i) == <<Chunks[i].date, Chunks[i].ver>>

\* The heading a record line stands under.
HeadOf(i) ==
  CHOOSE j \in HeaderIdx :
    j < i /\ \A k \in HeaderIdx : k < i => k <= j

\* a > b for (date, ver) pairs compared as strings.
PairGT(a, b) ==
  \/ StrLT(b[1], a[1])
  \/ a[1] = b[1] /\ StrLT(b[2], a[2])

\* C8: for a non-empty list the narrative projection has one heading per
\* distinct (date, ver) pair, the headings are strictly descending in the
\* pair compared as strings, and every record is rendered exactly once,
\* under the heading of its own pair.
C8_NarrativeGroups ==
  (out.kind = "markdown" /\ enriched # <<>>) =>
    /\ {HeaderKey(i) : i \in HeaderIdx} =
         {DateVer(heap, enriched[j]) : j \in 1..Len(enriched)}
    /\ \A i, j \in HeaderIdx : i < j => PairGT(HeaderKey(i), HeaderKey(j))
    /\ \A j \in 1..Len(enriched) :
         Cardinality({i \in ItemIdx : Chunks[i].ref = enriched[j]}) = 1
    /\ \A i \in ItemIdx :
         /\ Chunks[i].ref \in Range(enriched)
         /\ \E j \in HeaderIdx : j < i
         /\ HeaderKey(HeadOf(i)) = DateVer(heap, Chunks[i].ref)

\* Three records in two groups that differ in the version only, given in
\* ascending order.
C8_Witness ==
  /\ out.kind = "markdown"
  /\ Len(enriched) = 3
  /\ Cardinality(HeaderIdx) = 2
  /\ \E i, j \in HeaderIdx :
       Chunks[i].date = Chunks[j].date /\ Chunks[i].ver # Chunks[j].ver
  /\ heap[1].ver = "10.0.0"

\* The grouped projection and its key field.
Groups == out.groups
By == args.group_by
FieldAt(j) == heap[enriched[j]][By]
FirstAt(v) ==
  CHOOSE j \in 1..Len(enriched) :
    FieldAt(j) = v /\ \A k \in 1..Len(enriched) : FieldAt(k) = v => j <= k

\* C9: the grouped projection has one group per distinct value of the key
\* field, the groups are in order of first occurrence, and each group holds
\* exactly the records with its value, in their input order.
C9_GroupedPartition ==
  out.kind = "grouped" =>
    /\ \A a, b \in 1..Len(Groups) : a # b => Groups[a].key # Groups[b].key
    /\ {Groups[a].key : a \in 1..Len(Groups)} =
         {FieldAt(j) : j \in 1..Len(enriched)}
    /\ \A a, b \in 1..Len(Groups) :
         a < b => FirstAt(Groups[a].key) < FirstAt(Groups[b].key)
    /\ \A a \in 1..Len(Groups) :
         Groups[a].items =
           SelectSeq(enriched, LAMBDA e : heap[e][By] = Groups[a].key)

\* Grouping by layer gives three groups, one of them the empty layer.
C9_Witness ==
  /\ out.kind = "grouped"
  /\ By = "layer"
  /\ Len(Groups) = 3
  /\ \E a \in 1..Len(Groups) : Groups[a].key = ""

\* C10: the diagnostic lists exactly the tags of the classified records
\* whose family is "Unknown", ascending, each once; no tag of the resolved
\* registry is in it.
C10_UnknownTags ==
  ppc \in {"warned", "done"} =>
    /\ \A i, j \in 1..Len(unknowns) :
         i < j => StrLT(unknowns[i], unknowns[j])
    /\ Range(unknowns) =
         {heap[enriched[j]].tag :
            j \in {k \in 1..Len(enriched) :
                     heap[enriched[k]].family = "Unknown"}}
    /\ \A i \in 1..Len(unknowns) : unknowns[i] \notin DOMAIN registry

\* Two unknown tags, one of them on two records, the larger one first.
C10_Witness ==
  /\ ppc = "warned"
  /\ Len(enriched) = 3
  /\ unknowns = <<"ALPHA", "ZZZTOP">>
  /\ heap[enriched[1]].tag = "ZZZTOP"
  /\ heap[enriched[2]].tag = "ALPHA"
  /\ heap[enriched[3]].tag = "ZZZTOP"

----------------------------------------------------------------------------
(* load_registry_from_md.  The registry document is a sequence of lines   *)
(* (text.splitlines()); the string operations and the two regular          *)
(* expressions are given by what they yield on the lines of the model.     *)

\* Longest registry document, in lines.
MaxRegLines == 4

\* Lines of a TAGS.md document.
RegLines ==
  {"## Symbolic & Philosophical", "## Meta-Process", "## Notes [SEED]",
   "  ## Epiphany [ZZZTOP]", "| SEED | seed |", "  | ZZZTOP | see [SEED] |",
   "\\item[SEED] seed", "plain"}

\* line.strip()
RegStrip(line) ==
  CASE line = "  ## Epiphany [ZZZTOP]" -> "## Epiphany [ZZZTOP]"
    [] line = "  | ZZZTOP | see [SEED] |" -> "| ZZZTOP | see [SEED] |"
    [] OTHER -> line

\* h.startswith("## ")
IsHeading(h) ==
  h \in {"## Symbolic & Philosophical", "## Meta-Process", "## Notes [SEED]",
         "## Epiphany [ZZZTOP]"}

\* family_map, in the order its items are iterated.
family_map ==
  << <<"Structural", STRUCTURAL>>, <<"Framework", STRUCTURAL>>,
     <<"Process", PROCESS>>, <<"Development", PROCESS>>,
     <<"Symbolic", SYMBOLIC>>, <<"Philosophical", SYMBOLIC>>,
     <<"Meta", META>>, <<"Operational", META>>,
     <<"Seeded Epiphany Matrix", EPIPHANY>>, <<"Epiphany", EPIPHANY>> >>

\* The keys of family_map that are substrings of h (key in h).
KeysIn(h) ==
  CASE h = "## Symbolic & Philosophical" -> {"Symbolic", "Philosophical"}
    [] h = "## Meta-Process" -> {"Meta", "Process"}
    [] h = "## Epiphany [ZZZTOP]" -> {"Epiphany"}
    [] OTHER -> {}

\* re.match(r"^\|\s*([A-Z][A-Z0-9_]+)\s*\|", h): group 1, None if no match.
TableTag(h) ==
  CASE h = "| SEED | seed |" -> "SEED"
    [] h = "| ZZZTOP | see [SEED] |" -> "ZZZTOP"
    [] OTHER -> None

\* re.search(r"\[(?P<tag>[A-Z][A-Z0-9_]+)\]", h): the tag group of the
\* leftmost match, None if no match.
BracketTag(h) ==
  CASE h = "## Notes [SEED]" -> "SEED"
    [] h = "## Epiphany [ZZZTOP]" -> "ZZZTOP"
    [] h = "| ZZZTOP | see [SEED] |" -> "SEED"
    [] h = "\\item[SEED] seed" -> "SEED"
    [] OTHER -> None

\* Mutant of HeadingFamily: a heading that names no family clears the cursor.
RECURSIVE HeadingFamily_Reset(_, _, _)
HeadingFamily_Reset(h, cur, i) ==
  IF i > Len(family_map) THEN None
  ELSE IF family_map[i][1] \in KeysIn(h) THEN family_map[i][2]
  ELSE HeadingFamily_Reset(h, cur, i + 1)

\* for key, fam in family_map.items(): if key in h: current_family = fam;
\* break -- the cursor after the loop, started at item i.
RECURSIVE HeadingFamily(_, _, _)
HeadingFamily(h, cur, i) ==
  IF i > Len(family_map) THEN cur
  ELSE IF family_map[i][1] \in KeysIn(h) THEN family_map[i][2]
  ELSE HeadingFamily(h, cur, i + 1)

\* Mutant of DictSet: an existing key keeps its value.
DictSet_KeepFirst(d, k, v) ==
  [t \in DOMAIN d \cup {k} |-> IF t \in DOMAIN d THEN d[t] ELSE v]

\* d[k] = v
DictSet(d, k, v) ==
  [t \in DOMAIN d \cup {k} |-> IF t = k THEN v ELSE d[t]]

\* The branch the loop body takes on a line, for the cursor cur.
RegBranch(line, cur) ==
  LET h == RegStrip(line)
  IN  IF IsHeading(h) THEN "heading"
      ELSE IF TableTag(h) # None /\ cur # None THEN "table"
      ELSE IF BracketTag(h) # None /\ cur # None THEN "bracket"
      ELSE "none"

\* One iteration of the loop over the lines, on the locals
\* st = [current_family, tag_to_family].
RegStep(st, line) ==
  LET h == RegStrip(line)
      b == RegBranch(line, st.current_family)
  IN  CASE b = "heading" ->
             [st EXCEPT !.current_family = HeadingFamily(h, @, 1)]
        [] b = "table" ->
             [st EXCEPT !.tag_to_family =
                DictSet(@, Upper(TableTag(h)), st.current_family)]
        [] b = "bracket" ->
             [st EXCEPT !.tag_to_family =
                DictSet(@, Upper(BracketTag(h)), st.current_family)]
        [] OTHER -> st

RECURSIVE RegFold(_, _, _)
RegFold(st, lines, i) ==
  IF i > Len(lines) THEN st
  ELSE RegFold(RegStep(st, lines[i]), lines, i + 1)

\* load_registry_from_md(path): the returned mapping.
load_registry_from_md(doc) ==
  IF ~doc.readable THEN <<>>
  ELSE RegFold([current_family |-> None, tag_to_family |-> <<>>],
               doc.text, 1).tag_to_family

\* The state after the locals are initialised, for any registry document.
RegInit ==
  /\ ScrapeIdle
  /\ PipeIdle
  /\ MainIdle
  /\ rdoc \in {Unreadable} \cup
       {[readable |-> TRUE, text |-> t] :
          t \in UNION {[1..n -> RegLines] : n \in 0..MaxRegLines}}
  /\ rpc = "read"
  /\ rpos = 1
  /\ current_family = None
  /\ tag_to_family = <<>>
  /\ rlog = <<>>

\* read_text succeeds.
RegRead ==
  /\ rpc = "read"
  /\ rdoc.readable
  /\ rpc' = "scan"
  /\ UNCHANGED <<rdoc, rpos, current_family, tag_to_family, rlog>>
  /\ UNCHANGED <<scrapeVars, pipeVars, mainVars>>

\* read_text raises: warn and return {}.
RegReadFail ==
  /\ rpc = "read"
  /\ ~rdoc.readable
  /\ rpc' = "done"
  /\ tag_to_family' = <<>>
  /\ UNCHANGED <<rdoc, rpos, current_family, rlog>>
  /\ UNCHANGED <<scrapeVars, pipeVars, mainVars>>

\* The loop is at a line.
RegAtLine == rpc = "scan" /\ rpos <= Len(rdoc.text)

\* The branch the loop body takes on the line at rpos.
RegBranchAt == RegBranch(rdoc.text[rpos], current_family)

\* The loop body on the line at rpos.
RegApply ==
  /\ LET st == RegStep([current_family |-> current_family,
                        tag_to_family |-> tag_to_family], rdoc.text[rpos])
     IN  /\ current_family' = st.current_family
         /\ tag_to_family' = st.tag_to_family
  /\ rlog' = Append(rlog, [cur |-> current_family, branch |-> RegBranchAt])
  /\ rpos' = rpos + 1
  /\ UNCHANGED <<rdoc, rpc>>
  /\ UNCHANGED <<scrapeVars, pipeVars, mainVars>>

\* A family header line.
RegHeading ==
  /\ RegAtLine
  /\ RegBranchAt = "heading"
  /\ RegApply

\* A table-style row while a family is set.
RegTableRow ==
  /\ RegAtLine
  /\ RegBranchAt = "table"
  /\ RegApply

\* A description-style bullet while a family is set.
RegBracket ==
  /\ RegAtLine
  /\ RegBranchAt = "bracket"
  /\ RegApply

\* Any other line.
RegOther ==
  /\ RegAtLine
  /\ RegBranchAt = "none"
  /\ RegApply

\* The loop is exhausted: return tag_to_family.
RegReturn ==
  /\ rpc = "scan"
  /\ rpos > Len(rdoc.text)
  /\ rpc' = "done"
  /\ UNCHANGED <<rdoc, rpos, current_family, tag_to_family, rlog>>
  /\ UNCHANGED <<scrapeVars, pipeVars, mainVars>>

RegNext ==
  \/ RegRead
  \/ RegReadFail
  \/ RegHeading
  \/ RegTableRow
  \/ RegBracket
  \/ RegOther
  \/ RegReturn

SpecReg == RegInit /\ [][RegNext]_vars

----------------------------------------------------------------------------
(* Properties of load_registry_from_md.  rlog[n].cur is the cursor with   *)
(* which line n was reached.                                               *)

RegTags == {"SEED", "ZZZTOP"}

RegProcessed == 1..Len(rlog)

RegH(n) == RegStrip(rdoc.text[n])

Last(S) == CHOOSE n \in S : \A m \in S : m <= n

\* The family a tag has when the lines in K are those that set it.
LastWins(T, K) ==
  IF K = {} THEN T \notin DOMAIN tag_to_family
  ELSE /\ T \in DOMAIN tag_to_family
       /\ tag_to_family[T] = rlog[Last(K)].cur

\* C11 as stated: a tag has the family current at the last table-row or
\* bracket-reference line naming it while a family was set, and no entry if
\* it is only named while no family is set.
C11_LastNamingLine ==
  \A T \in RegTags :
    LastWins(T, {n \in RegProcessed :
                   /\ ~IsHeading(RegH(n))
                   /\ rlog[n].cur # None
                   /\ (TableTag(RegH(n)) = T \/ BracketTag(RegH(n)) = T)})

\* The one tag a line that is not a heading can set: the token of the table
\* row if the line is one, otherwise that of the leftmost bracket reference.
Captured(h) ==
  IF TableTag(h) # None THEN TableTag(h) ELSE BracketTag(h)

\* C11 amended: a tag has the family current at the last line that captured
\* it while a family was set, where a line that is not a heading captures
\* the token of its table row, or else of its leftmost bracket reference;
\* a tag captured only while no family is set has no entry.
C11_LastCapturingLine ==
  \A T \in RegTags :
    LastWins(T, {n \in RegProcessed :
                   /\ ~IsHeading(RegH(n))
                   /\ rlog[n].cur # None
                   /\ Captured(RegH(n)) = T})

\* A tag was captured under two different families.
C11_Witness ==
  /\ rpc = "done"
  /\ Len(rlog) = 4
  /\ \E m, n \in RegProcessed :
       /\ m < n
       /\ rlog[m].branch \in {"table", "bracket"}
       /\ rlog[n].branch \in {"table", "bracket"}
       /\ Captured(RegH(m)) = "SEED" /\ Captured(RegH(n)) = "SEED"
       /\ rlog[m].cur # rlog[n].cur

\* The families family_map gives the keys found in h.
FamiliesIn(h) ==
  {family_map[i][2] : i \in {j \in 1..Len(family_map) :
                               family_map[j][1] \in KeysIn(h)}}

\* C18: the cursor is moved only by a heading line that contains a known
\* family name or alias, and then to a family that the heading names; a
\* heading that names none leaves it as it was, a cursor once set is never
\* unset, and a heading line never records a tag.
C18_CursorOnlyByKnownHeading ==
  [][(RegAtLine /\ rpos' = rpos + 1) =>
       LET h == RegStrip(rdoc.text[rpos])
       IN  /\ current_family' # current_family =>
                (IsHeading(h) /\ current_family' \in FamiliesIn(h))
           /\ (IsHeading(h) /\ KeysIn(h) = {}) =>
                current_family' = current_family
           /\ current_family # None => current_family' # None
           /\ IsHeading(h) => tag_to_family' = tag_to_family]_vars

\* A heading that names no family, and carries a bracket token, was
\* processed while a family was set, and so was a heading naming two keys.
C18_Witness ==
  /\ \E n \in RegProcessed :
       /\ rlog[n].branch = "heading"
       /\ KeysIn(RegH(n)) = {}
       /\ BracketTag(RegH(n)) # None
       /\ rlog[n].cur # None
  /\ \E n \in RegProcessed :
       rlog[n].branch = "heading" /\ Cardinality(KeysIn(RegH(n))) = 2
  /\ current_family # None

----------------------------------------------------------------------------
(* main: the loop over the discovered files (each scrape_file call runs   *)
(* the actions of scrape_file above), then the steps of the pipeline.      *)

\* Most files find_files returns.
MaxFiles == 3

\* Files under the root: unreadable, or with one of these texts.
DocPool ==
  {Unreadable} \cup
  {[readable |-> TRUE, text |-> t] :
     t \in {<<>>, <<"T1">>, <<"T2", "NL", "T1">>, <<"BH", "NL", "T1">>,
            <<"S1", "NL", "BF", "NL", "T2", "NL", "EF", "NL", "T1">>}}

\* TAGS.md files for --tags-reg.
RegDocPool ==
  {Unreadable} \cup
  {[readable |-> TRUE, text |-> t] :
     t \in {<<"  ## Epiphany [ZZZTOP]", "| SEED | seed |">>,
            <<"  | ZZZTOP | see [SEED] |">>,
            <<"## Meta-Process", "\\item[SEED] seed">>}}

\* The state when find_files has returned and all_entries is empty.
MainInit ==
  /\ ScrapeIdle
  /\ RegIdle
  /\ files \in UNION {[1..n -> DocPool] : n \in 0..MaxFiles}
  /\ fidx = 1
  /\ regdoc = Unreadable
  /\ perFile = <<>>
  /\ origin = <<>>
  /\ calls = <<>>
  /\ args = ArgDefaults
  /\ heap = <<>>
  /\ all_entries = <<>>
  /\ BUILTIN_REGISTRY = BUILTIN_TABLE
  /\ md_map = <<>>
  /\ registry = <<>>
  /\ enriched = <<>>
  /\ unknowns = <<>>
  /\ out = [kind |-> "none"]
  /\ ppc = "loop"

InLoop == ppc = "loop" /\ pc = "idle" /\ fidx <= Len(files)

\* scrape_file(f) is entered and read_text succeeds.
ScrapeStart ==
  /\ InLoop
  /\ files[fidx].readable
  /\ text' = files[fidx].text
  /\ pc' = "read"
  /\ pos' = 1
  /\ section_title' = None
  /\ in_ledger' = FALSE
  /\ ledger_title' = None
  /\ entries' = <<>>
  /\ evt' = "none"
  /\ hist' = <<>>
  /\ inAt' = <<>>
  /\ UNCHANGED <<pipeVars, regVars, mainVars>>

\* Mutant of ScrapeReadFail: the exception leaves main.
ScrapeReadFail_Raise ==
  /\ InLoop
  /\ ~files[fidx].readable
  /\ ppc' = "crashed"
  /\ UNCHANGED <<args, heap, all_entries, BUILTIN_REGISTRY, md_map, registry,
                 enriched, unknowns, out>>
  /\ UNCHANGED <<scrapeVars, regVars, mainVars>>

\* scrape_file(f) is entered and read_text raises: warn, return the empty
\* entries.
ScrapeReadFail ==
  /\ InLoop
  /\ ~files[fidx].readable
  /\ text' = <<>>
  /\ pc' = "done"
  /\ pos' = 1
  /\ section_title' = None
  /\ in_ledger' = FALSE
  /\ ledger_title' = None
  /\ entries' = <<>>
  /\ evt' = "none"
  /\ hist' = <<>>
  /\ inAt' = <<>>
  /\ UNCHANGED <<pipeVars, regVars, mainVars>>

\* Mutant of Extended: the new items go to the front.
Extended_Front(lst, items) == items \o lst

\* lst.extend(items): the list after the call.
Extended(lst, items) == lst \o items

\* all_entries.extend(scrape_file(f)): the returned dicts are stored and
\* the loop moves to the next file.
Extend ==
  /\ ppc = "loop"
  /\ pc = "done"
  /\ heap' = heap \o entries
  /\ all_entries' =
       Extended(all_entries, [k \in 1..Len(entries) |-> Len(heap) + k])
  /\ origin' = origin \o [k \in 1..Len(hist) |->
                            [file |-> fidx, line |-> hist[k].line]]
  /\ perFile' = Append(perFile,
                       [entries |-> entries, hist |-> hist, inAt |-> inAt])
  /\ fidx' = fidx + 1
  /\ pc' = "idle"
  /\ UNCHANGED <<text, pos, section_title, in_ledger, ledger_title, entries,
                 evt, hist, inAt>>
  /\ UNCHANGED <<args, BUILTIN_REGISTRY, md_map, registry, enriched, unknowns,
                 out, ppc>>
  /\ UNCHANGED <<files, regdoc, calls>>
  /\ UNCHANGED regVars

\* The loop over files is exhausted.
LoopEnd ==
  /\ ppc = "loop"
  /\ pc = "idle"
  /\ fidx > Len(files)
  /\ ppc' = "scraped"
  /\ UNCHANGED <<args, heap, all_entries, BUILTIN_REGISTRY, md_map, registry,
                 enriched, unknowns, out>>
  /\ UNCHANGED <<scrapeVars, regVars, mainVars>>

\* get_registry(args), with the TAGS.md file that --tags-reg names.
GetRegistryFromFile ==
  /\ ppc = "filtered"
  /\ \/ /\ args' = [args EXCEPT !.tags_reg = "TAGS.md"]
        /\ regdoc' \in RegDocPool
        /\ md_map' = load_registry_from_md(regdoc')
     \/ /\ args' = [args EXCEPT !.tags_reg = None]
        /\ regdoc' = regdoc
        /\ md_map' = md_map
  /\ registry' = get_registry(BUILTIN_REGISTRY, args'.tags_reg, md_map')
  /\ BUILTIN_REGISTRY' = BuiltinAfter(BUILTIN_REGISTRY, args'.tags_reg, md_map')
  /\ ppc' = "resolved"
  /\ UNCHANGED <<heap, all_entries, enriched, unknowns, out>>
  /\ UNCHANGED <<files, fidx, perFile, origin, calls>>
  /\ UNCHANGED <<scrapeVars, regVars>>

MainNext ==
  \/ ScrapeStart
  \/ ScrapeReadFail
  \/ Prescan
  \/ ScanHeader
  \/ ScanFooter
  \/ ScanClose
  \/ ScanTag
  \/ ScanPlain
  \/ ScrapeReturn
  \/ Extend
  \/ LoopEnd
  \/ Filter
  \/ GetRegistryFromFile
  \/ Enrich
  \/ Unknowns
  \/ FormatMarkdown
  \/ JsonRaw
  \/ JsonGrouped

SpecMain == MainInit /\ [][MainNext]_vars

----------------------------------------------------------------------------
(* Properties of main's file loop.  perFile[i] is what the i-th           *)
(* scrape_file call returned, with its history; origin[k] is the file and *)
(* the line the k-th stored record was matched on.                        *)

RECURSIVE Concat(_, _)
Concat(lists, i) ==
  IF i > Len(lists) THEN <<>>
  ELSE lists[i].entries \o Concat(lists, i + 1)

\* The records stored by the loop, in the order of their allocation.
Originals == SubSeq(heap, 1, Len(origin))

\* Line n of file i took one of the tracker's `continue` branches.
ConsumedIn(i, n) ==
  LET line == splitlines(files[i].text)[n]
  IN  IF perFile[i].inAt[n] THEN END_RE(line)
      ELSE HDR_RE(line) # None \/ FTR_RE(line)

\* C12: an unreadable document contributes the empty list and the loop
\* goes on: every file is scraped, every readable one from its first line
\* outside any ledger to its last line with a record for each matched line
\* that falls through the tracker, and the aggregated list is the
\* concatenation of the per-document lists; an unreadable registry gives
\* the empty mapping, and classification uses the built-in registry.
C12_ReadFailureIsolated ==
  /\ ppc = "loop" => Len(perFile) = fidx - 1
  /\ ppc # "loop" => Len(perFile) = Len(files)
  /\ \A i \in 1..Len(perFile) :
       IF ~files[i].readable THEN perFile[i].entries = <<>>
       ELSE LET lines == splitlines(files[i].text)
            IN  /\ Len(perFile[i].inAt) = Len(lines)
                /\ lines # <<>> => ~perFile[i].inAt[1]
                /\ Len(perFile[i].entries) = Len(perFile[i].hist)
                /\ {perFile[i].hist[k].line : k \in 1..Len(perFile[i].hist)} =
                     {n \in 1..Len(lines) :
                        TAG_RE(lines[n]) /\ ~ConsumedIn(i, n)}
  /\ Originals = Concat(perFile, 1)
  /\ (ppc \in {"resolved", "enriched", "warned", "done"}
      /\ args.tags_reg # None /\ ~regdoc.readable) =>
       /\ md_map = <<>>
       /\ registry = BUILTIN_TABLE
       /\ ppc \in {"enriched", "warned"} =>
            \A i \in 1..Len(enriched) :
              heap[enriched[i]].family =
                (IF heap[enriched[i]].tag \in DOMAIN BUILTIN_TABLE
                 THEN BUILTIN_TABLE[heap[enriched[i]].tag] ELSE "Unknown")

\* An unreadable file between two readable ones that yield records, and an
\* unreadable registry, after classification.
C12_Witness ==
  /\ ppc = "enriched"
  /\ Len(files) = 3
  /\ ~files[2].readable
  /\ perFile[1].entries # <<>>
  /\ perFile[3].entries # <<>>
  /\ args.tags_reg # None
  /\ ~regdoc.readable
  /\ Len(enriched) >= 2

\* a < b on (file, line) origins.
OriginLT(a, b) ==
  \/ a.file < b.file
  \/ a.file = b.file /\ a.line < b.line

\* C13: the records of one document are in increasing line order, the
\* aggregated list is the concatenation of the per-document lists in file
\* order, and filtering and classification keep the relative order.
C13_OrderFollowsInput ==
  /\ \A j, k \in 1..Len(hist) : j < k => hist[j].line < hist[k].line
  /\ \A k \in 1..Len(origin) : heap[k].file = Paths[origin[k].file]
  /\ ppc \in {"loop", "scraped"} =>
       /\ all_entries = [k \in 1..Len(origin) |-> k]
       /\ Originals = Concat(perFile, 1)
  /\ \A j, k \in 1..Len(all_entries) :
       j < k => OriginLT(origin[all_entries[j]], origin[all_entries[k]])
  /\ ppc \in {"enriched", "warned"} =>
       /\ Len(enriched) = Len(all_entries)
       /\ \A i \in 1..Len(enriched) :
            \A f \in DOMAIN heap[all_entries[i]] :
              heap[enriched[i]][f] = heap[all_entries[i]][f]

\* Records of two documents, two of them from one document, survive a
\* filter that drops a record between them.
C13_Witness ==
  /\ ppc = "enriched"
  /\ Len(origin) >= 4
  /\ Len(all_entries) >= 2
  /\ Len(all_entries) < Len(origin)
  /\ \E j, k \in 1..Len(all_entries) :
       j < k /\ origin[all_entries[j]].file < origin[all_entries[k]].file
  /\ \E j, k \in 1..Len(origin) :
       j < k /\ origin[j].file = origin[k].file

----------------------------------------------------------------------------
(* Further properties of the narrative projection.                         *)

\* The sections of the records rendered under the heading at j.
SectionsUnder(j) ==
  {heap[Chunks[i].ref].section : i \in {k \in ItemIdx : HeadOf(k) = j}}

\* C14: a group's heading names a section title exactly when all records
\* of the group have the same section, and then it names that section; a
\* group with two or more sections gets the generic heading without title.
C14_HeadingNamesSharedSection ==
  (out.kind = "markdown" /\ enriched # <<>>) =>
    \A j \in HeaderIdx :
      /\ Chunks[j].title # None <=> Cardinality(SectionsUnder(j)) = 1
      /\ Chunks[j].title # None => SectionsUnder(j) = {Chunks[j].title}
      /\ Cardinality(SectionsUnder(j)) >= 2 => Chunks[j].title = None

\* A group with two sections and a group with one, in one rendering.
C14_Witness ==
  /\ out.kind = "markdown"
  /\ \E j \in HeaderIdx : Cardinality(SectionsUnder(j)) = 2
  /\ \E j \in HeaderIdx : Chunks[j].title = "Genesis"

----------------------------------------------------------------------------
(* Further properties of scrape_file.                                      *)

\* Positions of the section declarations in the text, and the line of a
\* position.
DeclIdx == {i \in 1..Len(text) : text[i] \in {"S1", "S2"}}
LineOfPos(i) == 1 + Cardinality({j \in 1..(i - 1) : text[j] = "NL"})
FirstDecl == CHOOSE i \in DeclIdx : \A j \in DeclIdx : i <= j

\* The title of the first declaration in the whole text, None without one.
FirstDeclared ==
  IF DeclIdx = {} THEN None
  ELSE IF text[FirstDecl] = "S1" THEN "Genesis" ELSE "Exodus"

\* C15: from the start of the scan the section title is that of the first
\* declaration anywhere in the text and stays so; a record outside a ledger
\* or in a footer-opened ledger gets it (or the sentinel if there is none),
\* wherever the declaration stands, and later declarations change nothing.
C15_SectionFromPrescan ==
  /\ pc \in {"scan", "done"} => section_title = FirstDeclared
  /\ \A k \in 1..Len(entries) :
       (~hist[k].inl \/ hist[k].evt = "footer") =>
         entries[k].section =
           (IF FirstDeclared # None THEN FirstDeclared ELSE UNKNOWN_SECTION)

\* A record in a footer-opened ledger stands on a line before the section
\* declaration.
C15_Witness ==
  /\ pc = "done"
  /\ DeclIdx # {}
  /\ \E k \in 1..Len(entries) :
       /\ hist[k].inl
       /\ hist[k].evt = "footer"
       /\ hist[k].line < LineOfPos(FirstDecl)
       /\ entries[k].section = FirstDeclared

\* C17 as stated: inside a ledger, no line matching the header or the
\* footer-open pattern changes the state or the title, and a line leaves
\* the ledger only if it matches the close pattern.  Violated by a line
\* that carries both an open and an end form: the close test is the only
\* test made inside a ledger, so that line closes it.
C17_OpenLineKeepsState ==
  [][(AtLine /\ in_ledger /\ pos' = pos + 1) =>
       /\ (HDR_RE(CurLine) # None \/ FTR_RE(CurLine)) =>
            (in_ledger' /\ ledger_title' = ledger_title)
       /\ ~in_ledger' => END_RE(CurLine)]_vars

\* C17: inside a ledger, a line that matches the close pattern (either end
\* form, whichever pattern opened the ledger) closes it and clears the
\* title; every other line, a header or footer-open line included, leaves
\* the tracker inside with the title of the first open.
C17_LedgersDoNotNest ==
  [][(AtLine /\ in_ledger /\ pos' = pos + 1) =>
       IF END_RE(CurLine)
       THEN ~in_ledger' /\ ledger_title' = None
       ELSE in_ledger' /\ ledger_title' = ledger_title]_vars

\* A header-opened ledger met a footer-open line, stayed open, and was then
\* closed by the footer end form.
C17_Witness ==
  /\ pc = "done"
  /\ Len(inAt) = 3
  /\ HDR_RE(Lines[1]) # None
  /\ inAt[2] /\ FTR_RE(Lines[2]) /\ ~END_RE(Lines[2])
  /\ inAt[3] /\ FirstIdx(Lines[3], {"EF"}) # 0
  /\ evt = "close"
  /\ ~in_ledger

----------------------------------------------------------------------------
(* get_registry called repeatedly by one process.                          *)

\* Most calls of get_registry.
MaxCalls == 3

\* The state before the first call.
ResolveInit ==
  /\ ScrapeIdle
  /\ RegIdle
  /\ MainIdle
  /\ args = ArgDefaults
  /\ heap = <<>>
  /\ all_entries = <<>>
  /\ BUILTIN_REGISTRY = BUILTIN_TABLE
  /\ md_map = <<>>
  /\ registry = <<>>
  /\ enriched = <<>>
  /\ unknowns = <<>>
  /\ out = [kind |-> "none"]
  /\ ppc = "filtered"

\* The caller takes the result and is about to call get_registry again.
ResolveAgain ==
  /\ ppc = "resolved"
  /\ Len(calls) + 1 < MaxCalls
  /\ calls' = Append(calls, [tags_reg |-> args.tags_reg, md_map |-> md_map,
                             registry |-> registry])
  /\ ppc' = "filtered"
  /\ UNCHANGED <<args, heap, all_entries, BUILTIN_REGISTRY, md_map, registry,
                 enriched, unknowns, out>>
  /\ UNCHANGED <<files, fidx, regdoc, perFile, origin>>
  /\ UNCHANGED <<scrapeVars, regVars>>

ResolveNext ==
  \/ GetRegistry
  \/ ResolveAgain

SpecResolve == ResolveInit /\ [][ResolveNext]_vars

\* C16: whatever resolutions have been made, BUILTIN_REGISTRY holds its
\* initial entries, and a resolution without an external mapping returns
\* the original built-in taxonomy.
C16_BuiltinNeverMutated ==
  /\ BUILTIN_REGISTRY = BUILTIN_TABLE
  /\ (ppc = "resolved" /\ args.tags_reg = None) => registry = BUILTIN_TABLE

\* A resolution without external mapping after one whose external mapping
\* overrode a built-in tag.
C16_Witness ==
  /\ ppc = "resolved"
  /\ args.tags_reg = None
  /\ \E c \in 1..Len(calls) :
       /\ calls[c].tags_reg # None
       /\ "SEED" \in DOMAIN calls[c].md_map
       /\ calls[c].registry["SEED"] # BUILTIN_TABLE["SEED"]
  /\ registry["SEED"] = STRUCTURAL

====
